---- MODULE Spec2Model ----
(***************************************************************************)
(* Hekwerk-oppervlakte-calculator (src/app.py): the Streamlit script as a  *)
(* state machine.  One user interaction changes one widget and starts one  *)
(* run of the script; the run executes the script's blocks in order:       *)
(*   scale resolution -> row computation and recompute_surfaces ->         *)
(*   export -> project import.                                             *)
(*                                                                         *)
(* Numbers.  Floats are modelled by exact values:                          *)
(*   px_per_mm            a fraction <<num, den>> in lowest terms          *)
(*   "Breedte/Hoogte (mm)" tenths of a millimetre   (round(x, 1))          *)
(*   "Lengte (m)"          thousandths of a metre   (round(x, 3))          *)
(*   "Oppervlakte (m2)"    units of 0.0001 m2       (round(x, 4))          *)
(*   diameters             whole millimetres (round(d, 1) leaves them)     *)
(*   panel_area, post_area, total_area   numerators over AreaDen, in       *)
(*                         units of 0.0001 m2 (they are not rounded)       *)
(* math.pi is the fraction PiNum / PiDen.  None is <<>>.                   *)
(***************************************************************************)
EXTENDS Integers, Sequences, FiniteSets, TLC

VARIABLES
    page_scales,               \* st.session_state.page_scales: page index -> px_per_mm
    diameter_overrides,        \* st.session_state.diameter_overrides: id -> diameter
    results_df,                \* st.session_state.results_df: sequence of rows
    page_idx,                  \* the page selector
    scale_len_mm,              \* number input scale_len_mm_{page}, per page
    scale_canvas,              \* objects of scale_canvas_{page}, per page
    panel_canvas,              \* objects of panel_canvas_{page}, per page
    post_canvas,               \* objects of post_canvas_{page}, per page
    coat_both_sides,           \* sidebar checkbox
    default_post_diameter_mm,  \* sidebar number input
    edit,                      \* the data editor's cell edit of this run, or None
    export_csv,                \* button, TRUE in the run its press starts
    export_json,               \* button, TRUE in the run its press starts
    project_file,              \* the project uploader: a document name or "None"
    pc,                        \* position of the script
    px_per_mm,                 \* script local
    df,                        \* script local: the rows of this run
    panel_area,                \* recompute_surfaces results of the last pass
    post_area,
    total_area,
    post_len_total,
    csv_download,              \* what the CSV download button offers
    json_download,             \* the exported project document
    exported_from,             \* the three tables at the time of that export
    runs                       \* number of script runs so far

vars == <<page_scales, diameter_overrides, results_df, page_idx, scale_len_mm,
          scale_canvas, panel_canvas, post_canvas, coat_both_sides,
          default_post_diameter_mm, edit, export_csv, export_json, project_file,
          pc, px_per_mm, df, panel_area, post_area, total_area, post_len_total,
          csv_download, json_download, exported_from, runs>>

session == <<page_scales, diameter_overrides, results_df>>
widgets == <<page_idx, scale_len_mm, scale_canvas, panel_canvas, post_canvas,
             coat_both_sides, default_post_diameter_mm, project_file>>
locals  == <<px_per_mm, df>>
totals  == <<panel_area, post_area, total_area, post_len_total>>
outputs == <<csv_download, json_download, exported_from>>

(***************************************************************************)
(* Bounds of the model.                                                    *)
(***************************************************************************)
NumPages == 2       \* pages of the uploaded drawing
MaxShapes == 2      \* objects drawn on one canvas
MaxRuns == 3        \* script runs in one session

Pages == 0 .. (NumPages - 1)

(***************************************************************************)
(* Program constants.                                                      *)
(***************************************************************************)
DefaultScaleLen == 1000     \* value=1000.0 of the scale length input
DefaultDiameter == 60       \* value=60.0 of the default diameter input
PiNum == 355                \* math.pi as PiNum / PiDen
PiDen == 113
AreaDen == PiDen * 100      \* denominator of unrounded areas, units of 0.0001 m2

None == <<>>
EmptyDict == [k \in {} |-> None]

(***************************************************************************)
(* Arithmetic helpers.                                                     *)
(***************************************************************************)
Abs(x) == IF x < 0 THEN -x ELSE x

RECURSIVE GCD(_, _)
GCD(a, b) == IF b = 0 THEN a ELSE GCD(b, a % b)

\* The float n / d, as a fraction in lowest terms with a positive denominator.
Frac(n, d) ==
    LET g == GCD(Abs(n), Abs(d))
        s == IF d < 0 THEN -1 ELSE 1
    IN  <<(s * n) \div g, (s * d) \div g>>

\* round(): the integer nearest to num / den, ties to the even one.
Round(num, den) ==
    LET n == IF den < 0 THEN -num ELSE num
        d == Abs(den)
        q == n \div d
        r == n % d
    IN  IF r < d - r THEN q
        ELSE IF r > d - r THEN q + 1
        ELSE IF q % 2 = 0 THEN q ELSE q + 1

\* math.hypot on the segments the model draws, whose lengths are whole pixels.
Hypot(dx, dy) ==
    CHOOSE r \in 0 .. (Abs(dx) + Abs(dy)) : r * r = dx * dx + dy * dy

RECURSIVE SumSeq(_)
SumSeq(s) == IF s = <<>> THEN 0 ELSE Head(s) + SumSeq(Tail(s))

\* dict[k] = v
Put(d, k, v) == [x \in (DOMAIN d) \cup {k} |-> IF x = k THEN v ELSE d[x]]

\* dict.get(k, default)
Get(d, k, default) == IF k \in DOMAIN d THEN d[k] ELSE default

(***************************************************************************)
(* Canvas objects (the drawable canvas's json_data["objects"]).            *)
(***************************************************************************)
Line(x1, y1, x2, y2) == [type |-> "line", x1 |-> x1, y1 |-> y1, x2 |-> x2, y2 |-> y2]
Rect(w, h, sx, sy) == [type |-> "rect", width |-> w, height |-> h, scaleX |-> sx, scaleY |-> sy]

\* Calibration lines: a degenerate one, 15 px and 30 px.
ScaleLines == {Line(5, 5, 5, 5), Line(0, 0, 9, 12), Line(0, 0, 18, 24)}
\* Target lengths the user may enter (min_value=0.0).
ScaleLens == {0, DefaultScaleLen}
\* Panels: one dragged right-to-left (negative width), one stretched (scaleX 3).
PanelRects == {Rect(-20, 10, 1, 1), Rect(10, 10, 3, 1)}
\* Posts: 18 px and 13 px.
PostLines == {Line(0, 0, 0, 18), Line(0, 0, 12, 5)}
\* Diameters the user may enter (min_value=1.0).
Diameters == {DefaultDiameter, 48}

(***************************************************************************)
(* 1) Scale resolution, lines 158-176.                                     *)
(***************************************************************************)
\* The scan of lines 160-166, from the running maximum max_len.
RECURSIVE MaxLenFrom(_, _)
MaxLenFrom(objs, max_len) ==
    IF objs = <<>> THEN max_len
    ELSE LET o == Head(objs)
             L == IF o.type = "line" THEN Hypot(o.x2 - o.x1, o.y2 - o.y1) ELSE 0
         IN  MaxLenFrom(Tail(objs), IF L > max_len THEN L ELSE max_len)

\* Mutant of MaxLen: the last line drawn wins, whatever its length.
MaxLenLast(objs) ==
    IF objs = <<>> THEN 0 ELSE MaxLenFrom(<<objs[Len(objs)]>>, 0)

MaxLen(objs) == MaxLenFrom(objs, 0)

\* Mutant of ScaleValid: the target length is not tested.
ScaleValidAnyTarget(objs, len_mm) == MaxLen(objs) > 0

\* The condition of line 167.
ScaleValid(objs, len_mm) == MaxLen(objs) > 0 /\ len_mm > 0

\* px_per_mm after line 168 or 172.
ResolveScale(objs, len_mm, scales, p) ==
    IF ScaleValid(objs, len_mm) THEN Frac(MaxLen(objs), len_mm)
    ELSE Get(scales, p, None)

\* Mutant of StoreScale: an invalid calibration clears the page's scale.
StoreScaleOrClear(objs, len_mm, scales, p) ==
    IF ScaleValid(objs, len_mm) THEN Put(scales, p, Frac(MaxLen(objs), len_mm))
    ELSE [q \in (DOMAIN scales) \ {p} |-> scales[q]]

\* page_scales after line 169.
StoreScale(objs, len_mm, scales, p) ==
    IF ScaleValid(objs, len_mm) THEN Put(scales, p, Frac(MaxLen(objs), len_mm))
    ELSE scales

\* Python truth of px_per_mm (lines 173 and 224): neither None nor 0.0.
Truthy(px) == px # None /\ px[1] # 0

(***************************************************************************)
(* 3) Row computation, lines 221-269.                                      *)
(***************************************************************************)
PageLabel(p) == "p" \o ToString(p + 1)

PanelId(page_label, i) == page_label \o "-panel-" \o ToString(i)

\* Mutant of PostId: posts numbered with the panels' prefix.
PostIdAsPanel(page_label, i) == page_label \o "-panel-" \o ToString(i)

PostId(page_label, i) == page_label \o "-post-" \o ToString(i)

\* Lines 229-246, with px = <<n, d>>: w_mm = w_px * d / n.
PanelRow(page_label, i, o, px, coat) ==
    LET w_px == Abs(o.width) * o.scaleX
        h_px == Abs(o.height) * o.scaleY
        sides == IF coat THEN 2 ELSE 1
    IN  [Pagina |-> page_label,
         Type |-> "Paneel",
         ID |-> PanelId(page_label, i),
         Breedte_mm |-> <<Round(w_px * px[2] * 10, px[1])>>,
         Hoogte_mm |-> <<Round(h_px * px[2] * 10, px[1])>>,
         Dubbelzijdig |-> <<coat>>,
         Diameter_mm |-> None,
         Lengte_m |-> None,
         Oppervlakte_m2 |-> Round(w_px * h_px * px[2] * px[2] * sides,
                                  px[1] * px[1] * 100)]

\* Lines 251-269.
PostRow(page_label, i, o, px, overrides, default_dia) ==
    LET L_px == Hypot(o.x2 - o.x1, o.y2 - o.y1)
        obj_id == PostId(page_label, i)
        dia_override == Get(overrides, obj_id, default_dia)
    IN  [Pagina |-> page_label,
         Type |-> "Paal/Buis",
         ID |-> obj_id,
         Breedte_mm |-> None,
         Hoogte_mm |-> None,
         Dubbelzijdig |-> None,
         Diameter_mm |-> <<dia_override>>,
         Lengte_m |-> <<Round(L_px * px[2], px[1])>>,
         Oppervlakte_m2 |-> Round(PiNum * dia_override * L_px * px[2],
                                  AreaDen * px[1])]

\* The loop of lines 227-246 from index i.
RECURSIVE PanelRows(_, _, _, _, _)
PanelRows(objs, i, page_label, px, coat) ==
    IF i > Len(objs) THEN <<>>
    ELSE (IF objs[i].type = "rect"
          THEN <<PanelRow(page_label, i, objs[i], px, coat)>> ELSE <<>>)
         \o PanelRows(objs, i + 1, page_label, px, coat)

\* The loop of lines 249-269 from index i.
RECURSIVE PostRows(_, _, _, _, _, _)
PostRows(objs, i, page_label, px, overrides, default_dia) ==
    IF i > Len(objs) THEN <<>>
    ELSE (IF objs[i].type = "line"
          THEN <<PostRow(page_label, i, objs[i], px, overrides, default_dia)>> ELSE <<>>)
         \o PostRows(objs, i + 1, page_label, px, overrides, default_dia)

\* rows at line 272.
Rows(p, px, panel_objs, post_objs, coat, overrides, default_dia) ==
    IF Truthy(px)
    THEN PanelRows(panel_objs, 1, PageLabel(p), px, coat)
         \o PostRows(post_objs, 1, PageLabel(p), px, overrides, default_dia)
    ELSE <<>>

\* st.data_editor, lines 283-291: the rows with the user's cell edit applied.
DataEditor(rows, e) ==
    IF e = None \/ e[1] > Len(rows) THEN rows
    ELSE [rows EXCEPT ![e[1]].Diameter_mm = <<e[2]>>]

(***************************************************************************)
(* recompute_surfaces, lines 294-315.                                      *)
(***************************************************************************)
\* float(r["Lengte (m)"] or 0), in thousandths of a metre.
RowLength(r) == IF r.Lengte_m = None THEN 0 ELSE r.Lengte_m[1]

\* float(r["Diameter (mm)"] or default_post_diameter_mm)
RowDiameter(r, default_dia) ==
    IF r.Diameter_mm = None \/ r.Diameter_mm[1] = 0 THEN default_dia
    ELSE r.Diameter_mm[1]

\* mantle_m2 of line 307, the numerator over AreaDen.
Mantle(r, default_dia) == PiNum * RowDiameter(r, default_dia) * RowLength(r)

\* The row appended to out_rows, lines 302 and 308-311.
OutRow(r, default_dia) ==
    IF r.Type = "Paneel" THEN r
    ELSE [r EXCEPT !.Oppervlakte_m2 = Round(Mantle(r, default_dia), AreaDen)]

OutRows(df_edit, default_dia) ==
    [i \in 1 .. Len(df_edit) |-> OutRow(df_edit[i], default_dia)]

\* panel_area, line 301.
PanelArea(df_edit) ==
    SumSeq([i \in 1 .. Len(df_edit) |->
              IF df_edit[i].Type = "Paneel"
              THEN df_edit[i].Oppervlakte_m2 * AreaDen ELSE 0])

\* post_area, line 309.
PostArea(df_edit, default_dia) ==
    SumSeq([i \in 1 .. Len(df_edit) |->
              IF df_edit[i].Type = "Paneel" THEN 0
              ELSE Mantle(df_edit[i], default_dia)])

\* post_len_total, line 310.
PostLenTotal(df_edit) ==
    SumSeq([i \in 1 .. Len(df_edit) |->
              IF df_edit[i].Type = "Paneel" THEN 0 ELSE RowLength(df_edit[i])])

\* total, line 314.
TotalArea(panel, post) == panel + post

\* diameter_overrides after the loop: line 313 for the rows from index i.
RECURSIVE SaveOverrides(_, _, _, _)
SaveOverrides(df_edit, i, default_dia, overrides) ==
    IF i > Len(df_edit) THEN overrides
    ELSE SaveOverrides(df_edit, i + 1, default_dia,
            IF df_edit[i].Type = "Paneel" THEN overrides
            ELSE Put(overrides, df_edit[i].ID, RowDiameter(df_edit[i], default_dia)))

(***************************************************************************)
(* Project documents.  A JSON value is a tagged record: a number, a string *)
(* or a list; a JSON object is a function from its keys.                   *)
(***************************************************************************)
JNum(x) == [t |-> "num", v |-> x]
JStr(x) == [t |-> "str", v |-> x]
JList(x) == [t |-> "list", v |-> x]

\* Strings float() accepts, with their values.
NumericStrings == [s \in {"48"} |-> 48]

\* float(v) of lines 355-356 raises on a non-numeric string and on a list.
FloatOk(j) == j.t = "num" \/ (j.t = "str" /\ j.v \in DOMAIN NumericStrings)

FloatOf(j) == IF j.t = "num" THEN j.v ELSE NumericStrings[j.v]

\* int(k) of line 355 on a JSON key: the decimal numeral of a page index.
IntOk(k) == \E n \in 0 .. 9 : ToString(n) = k

IntOf(k) == CHOOSE n \in 0 .. 9 : ToString(n) = k

\* Python truth of payload.get("results", []), line 358.
ResultsTruthy(j) == IF j.t = "list" THEN j.v # <<>> ELSE j.v # ""

\* pd.DataFrame(results), line 359, raises on a string.
DataFrameOk(j) == j.t = "list"

\* The payload of lines 340-348 as json.dumps writes it: integer keys become
\* strings, an empty results_df becomes [].
Payload(scales, overrides, results, coat, default_dia) ==
    [page_scales |->
        [s \in {ToString(k) : k \in DOMAIN scales} |->
            JNum(scales[CHOOSE k \in DOMAIN scales : ToString(k) = s])],
     diameter_overrides |-> [k \in DOMAIN overrides |-> JNum(overrides[k])],
     results |-> JList(results),
     settings |-> [coat_both_sides |-> coat, default_post_diameter_mm |-> default_dia]]

\* A row as a project document holds it.
SampleRow ==
    [Pagina |-> "p1", Type |-> "Paneel", ID |-> "p1-panel-1",
     Breedte_mm |-> <<3333>>, Hoogte_mm |-> <<1667>>, Dubbelzijdig |-> <<TRUE>>,
     Diameter_mm |-> None, Lengte_m |-> None, Oppervlakte_m2 |-> 1111]

\* The project documents the user may upload, besides the one exported.
Documents ==
    [valid |->
        [json |-> TRUE,
         payload |-> [page_scales |-> ("0" :> JNum(<<3, 50>>)),
                      diameter_overrides |-> ("p1-post-1" :> JStr("48")),
                      results |-> JList(<<SampleRow>>)]],
     empty |->
        [json |-> TRUE, payload |-> EmptyDict],
     badvalue |->
        [json |-> TRUE,
         payload |-> [page_scales |-> ("1" :> JNum(<<3, 100>>)),
                      diameter_overrides |-> ("p1-post-1" :> JStr("abc")),
                      results |-> JList(<<SampleRow>>)]],
     badkey |->
        [json |-> TRUE,
         payload |-> [page_scales |-> ("x" :> JNum(<<3, 100>>)),
                      diameter_overrides |-> EmptyDict,
                      results |-> JList(<<SampleRow>>)]],
     negative |->
        [json |-> TRUE,
         payload |-> [page_scales |-> ("0" :> JNum(<<-3, 100>>)),
                      diameter_overrides |-> EmptyDict,
                      results |-> JStr("abc")]],
     notjson |->
        [json |-> FALSE, payload |-> EmptyDict]]

\* The file behind the uploader's value.
FileOf(name, exported) ==
    IF name = "exported" THEN [json |-> TRUE, payload |-> exported[1]]
    ELSE Documents[name]

(***************************************************************************)
(* Project import, lines 352-362.                                          *)
(***************************************************************************)
\* The dict comprehension of line 355 succeeds.
ScalesOk(jps) == \A k \in DOMAIN jps : IntOk(k) /\ FloatOk(jps[k])

ImportedScales(jps) ==
    [p \in {IntOf(k) : k \in DOMAIN jps} |->
        FloatOf(jps[CHOOSE k \in DOMAIN jps : IntOf(k) = p])]

\* The dict comprehension of line 356 succeeds.
OverridesOk(jov) == \A k \in DOMAIN jov : FloatOk(jov[k])

ImportedOverrides(jov) == [k \in DOMAIN jov |-> FloatOf(jov[k])]

\* The three tables after the try block: <<page_scales, diameter_overrides,
\* results_df>>.  An exception leaves the assignments made before it.
Import(file, scales, overrides, results) ==
    IF ~file.json THEN <<scales, overrides, results>>
    ELSE LET payload == file.payload
             jps == Get(payload, "page_scales", EmptyDict)
             jov == Get(payload, "diameter_overrides", EmptyDict)
             jres == Get(payload, "results", JList(<<>>))
         IN  IF ~ScalesOk(jps) THEN <<scales, overrides, results>>
             ELSE IF ~OverridesOk(jov) THEN <<ImportedScales(jps), overrides, results>>
             ELSE IF ~ResultsTruthy(jres) \/ ~DataFrameOk(jres)
                  THEN <<ImportedScales(jps), ImportedOverrides(jov), results>>
             ELSE <<ImportedScales(jps), ImportedOverrides(jov), jres.v>>

(***************************************************************************)
(* The state after the drawing is uploaded and the script has run once.    *)
(***************************************************************************)
Init ==
    /\ page_scales = EmptyDict
    /\ diameter_overrides = EmptyDict
    /\ results_df = <<>>
    /\ page_idx = 0
    /\ scale_len_mm = [p \in Pages |-> DefaultScaleLen]
    /\ scale_canvas = [p \in Pages |-> <<>>]
    /\ panel_canvas = [p \in Pages |-> <<>>]
    /\ post_canvas = [p \in Pages |-> <<>>]
    /\ coat_both_sides = TRUE
    /\ default_post_diameter_mm = DefaultDiameter
    /\ edit = None
    /\ export_csv = FALSE
    /\ export_json = FALSE
    /\ project_file = "None"
    /\ pc = "idle"
    /\ px_per_mm = None
    /\ df = <<>>
    /\ panel_area = None
    /\ post_area = None
    /\ total_area = None
    /\ post_len_total = None
    /\ csv_download = None
    /\ json_download = None
    /\ exported_from = None
    /\ runs = 0

(***************************************************************************)
(* User interactions.  Each changes one widget and starts a run; a button  *)
(* is TRUE and a cell edit is present only in the run it starts.           *)
(***************************************************************************)
Rerun(e, csv, json) ==
    /\ pc = "idle"
    /\ runs < MaxRuns
    /\ pc' = "scale"
    /\ runs' = runs + 1
    /\ edit' = e
    /\ export_csv' = csv
    /\ export_json' = json
    /\ UNCHANGED <<session, locals, totals, outputs>>

\* The page selector, line 130.
SelectPage(p) ==
    /\ p # page_idx
    /\ page_idx' = p
    /\ Rerun(None, FALSE, FALSE)
    /\ UNCHANGED <<scale_len_mm, scale_canvas, panel_canvas, post_canvas,
                   coat_both_sides, default_post_diameter_mm, project_file>>

\* The scale length input, line 143.
SetScaleLen(v) ==
    /\ v # scale_len_mm[page_idx]
    /\ scale_len_mm' = [scale_len_mm EXCEPT ![page_idx] = v]
    /\ Rerun(None, FALSE, FALSE)
    /\ UNCHANGED <<page_idx, scale_canvas, panel_canvas, post_canvas,
                   coat_both_sides, default_post_diameter_mm, project_file>>

\* A line drawn on the scale canvas, lines 145-156.
DrawScaleLine(o) ==
    /\ Len(scale_canvas[page_idx]) < MaxShapes
    /\ scale_canvas' = [scale_canvas EXCEPT ![page_idx] = Append(@, o)]
    /\ Rerun(None, FALSE, FALSE)
    /\ UNCHANGED <<page_idx, scale_len_mm, panel_canvas, post_canvas,
                   coat_both_sides, default_post_diameter_mm, project_file>>

\* A rectangle drawn on the panel canvas, lines 188-200.
DrawPanel(o) ==
    /\ Len(panel_canvas[page_idx]) < MaxShapes
    /\ panel_canvas' = [panel_canvas EXCEPT ![page_idx] = Append(@, o)]
    /\ Rerun(None, FALSE, FALSE)
    /\ UNCHANGED <<page_idx, scale_len_mm, scale_canvas, post_canvas,
                   coat_both_sides, default_post_diameter_mm, project_file>>

\* A line drawn on the post canvas, lines 204-216.
DrawPost(o) ==
    /\ Len(post_canvas[page_idx]) < MaxShapes
    /\ post_canvas' = [post_canvas EXCEPT ![page_idx] = Append(@, o)]
    /\ Rerun(None, FALSE, FALSE)
    /\ UNCHANGED <<page_idx, scale_len_mm, scale_canvas, panel_canvas,
                   coat_both_sides, default_post_diameter_mm, project_file>>

\* The bin of a canvas toolbar: all objects of one canvas of the page deleted.
ClearCanvas(c) ==
    /\ c = "scale" => scale_canvas[page_idx] # <<>>
    /\ c = "panel" => panel_canvas[page_idx] # <<>>
    /\ c = "post" => post_canvas[page_idx] # <<>>
    /\ scale_canvas' = IF c = "scale" THEN [scale_canvas EXCEPT ![page_idx] = <<>>]
                       ELSE scale_canvas
    /\ panel_canvas' = IF c = "panel" THEN [panel_canvas EXCEPT ![page_idx] = <<>>]
                       ELSE panel_canvas
    /\ post_canvas' = IF c = "post" THEN [post_canvas EXCEPT ![page_idx] = <<>>]
                      ELSE post_canvas
    /\ Rerun(None, FALSE, FALSE)
    /\ UNCHANGED <<page_idx, scale_len_mm, coat_both_sides, default_post_diameter_mm,
                   project_file>>

\* The double-sided checkbox, line 105.
ToggleCoat ==
    /\ coat_both_sides' = ~coat_both_sides
    /\ Rerun(None, FALSE, FALSE)
    /\ UNCHANGED <<page_idx, scale_len_mm, scale_canvas, panel_canvas, post_canvas,
                   default_post_diameter_mm, project_file>>

\* The default diameter input, line 106.
SetDefaultDiameter(v) ==
    /\ v # default_post_diameter_mm
    /\ default_post_diameter_mm' = v
    /\ Rerun(None, FALSE, FALSE)
    /\ UNCHANGED <<page_idx, scale_len_mm, scale_canvas, panel_canvas, post_canvas,
                   coat_both_sides, project_file>>

\* A diameter cell of a post row of the displayed table edited, lines 283-291.
EditDiameter(i, v) ==
    /\ i \in 1 .. Len(df)
    /\ df[i].Type = "Paal/Buis"
    /\ df[i].Diameter_mm # <<v>>
    /\ Rerun(<<i, v>>, FALSE, FALSE)
    /\ UNCHANGED widgets

\* The CSV export button, line 109.
PressExportCsv ==
    /\ Rerun(None, TRUE, FALSE)
    /\ UNCHANGED widgets

\* The project export button, line 110.
PressExportJson ==
    /\ Rerun(None, FALSE, TRUE)
    /\ UNCHANGED widgets

\* A file put into the project uploader, line 113: one of Documents, or the
\* document exported earlier.
UploadProject(name) ==
    /\ name # project_file
    /\ name = "exported" => json_download # None
    /\ project_file' = name
    /\ Rerun(None, FALSE, FALSE)
    /\ UNCHANGED <<page_idx, scale_len_mm, scale_canvas, panel_canvas, post_canvas,
                   coat_both_sides, default_post_diameter_mm>>

\* The file removed from the project uploader.
RemoveProject ==
    /\ project_file # "None"
    /\ project_file' = "None"
    /\ Rerun(None, FALSE, FALSE)
    /\ UNCHANGED <<page_idx, scale_len_mm, scale_canvas, panel_canvas, post_canvas,
                   coat_both_sides, default_post_diameter_mm>>

(***************************************************************************)
(* The blocks of one run of the script.                                    *)
(***************************************************************************)
\* Lines 158-176.
ScaleBlock ==
    /\ pc = "scale"
    /\ px_per_mm' = ResolveScale(scale_canvas[page_idx], scale_len_mm[page_idx],
                                 page_scales, page_idx)
    /\ page_scales' = StoreScale(scale_canvas[page_idx], scale_len_mm[page_idx],
                                 page_scales, page_idx)
    /\ pc' = "compute"
    /\ UNCHANGED <<diameter_overrides, results_df, widgets, df, totals, outputs,
                   edit, export_csv, export_json, runs>>

\* Lines 221-328.  Without rows no editor is shown, recompute_surfaces is not
\* called and no metric is displayed.
ComputeBlock ==
    /\ pc = "compute"
    /\ LET rows == Rows(page_idx, px_per_mm, panel_canvas[page_idx],
                        post_canvas[page_idx], coat_both_sides,
                        diameter_overrides, default_post_diameter_mm)
           edited == DataEditor(rows, edit)
       IN  /\ df' = rows
           /\ IF rows # <<>>
              THEN /\ results_df' = OutRows(edited, default_post_diameter_mm)
                   /\ diameter_overrides' =
                        SaveOverrides(edited, 1, default_post_diameter_mm,
                                      diameter_overrides)
                   /\ panel_area' = PanelArea(edited)
                   /\ post_area' = PostArea(edited, default_post_diameter_mm)
                   /\ total_area' = TotalArea(PanelArea(edited),
                                              PostArea(edited, default_post_diameter_mm))
                   /\ post_len_total' = PostLenTotal(edited)
              ELSE /\ UNCHANGED <<results_df, diameter_overrides>>
                   /\ panel_area' = None
                   /\ post_area' = None
                   /\ total_area' = None
                   /\ post_len_total' = None
    /\ pc' = "export"
    /\ UNCHANGED <<page_scales, widgets, px_per_mm, outputs, edit, export_csv,
                   export_json, runs>>

\* Lines 333-350.
ExportBlock ==
    /\ pc = "export"
    /\ csv_download' = IF export_csv /\ results_df # <<>> THEN <<results_df>>
                       ELSE csv_download
    /\ json_download' =
         IF export_json
         THEN <<Payload(page_scales, diameter_overrides, results_df,
                        coat_both_sides, default_post_diameter_mm)>>
         ELSE json_download
    /\ exported_from' = IF export_json
                        THEN <<page_scales, diameter_overrides, results_df>>
                        ELSE exported_from
    /\ pc' = "import"
    /\ UNCHANGED <<session, widgets, locals, totals, edit, export_csv, export_json,
                   runs>>

\* Lines 352-362.  The uploader keeps its file, so every run imports it again.
ImportBlock ==
    /\ pc = "import"
    /\ IF project_file = "None" THEN UNCHANGED session
       ELSE LET after == Import(FileOf(project_file, json_download), page_scales,
                                diameter_overrides, results_df)
            IN  /\ page_scales' = after[1]
                /\ diameter_overrides' = after[2]
                /\ results_df' = after[3]
    /\ pc' = "idle"
    /\ UNCHANGED <<widgets, locals, totals, outputs, edit, export_csv, export_json,
                   runs>>

Next ==
    \/ \E p \in Pages : SelectPage(p)
    \/ \E v \in ScaleLens : SetScaleLen(v)
    \/ \E o \in ScaleLines : DrawScaleLine(o)
    \/ \E o \in PanelRects : DrawPanel(o)
    \/ \E o \in PostLines : DrawPost(o)
    \/ \E c \in {"scale", "panel", "post"} : ClearCanvas(c)
    \/ ToggleCoat
    \/ \E v \in Diameters : SetDefaultDiameter(v)
    \/ \E i \in 1 .. (2 * MaxShapes), v \in Diameters : EditDiameter(i, v)
    \/ PressExportCsv
    \/ PressExportJson
    \/ \E name \in (DOMAIN Documents) \cup {"exported"} : UploadProject(name)
    \/ RemoveProject
    \/ ScaleBlock
    \/ ComputeBlock
    \/ ExportBlock
    \/ ImportBlock

Spec == Init /\ [][Next]_vars

(***************************************************************************)
(* Properties.                                                             *)
(***************************************************************************)
\* The project document in the uploader, read as lines 354-357 read it.
UploadedPayload == FileOf(project_file, json_download).payload
UploadedScales == Get(UploadedPayload, "page_scales", EmptyDict)
UploadedOverrides == Get(UploadedPayload, "diameter_overrides", EmptyDict)
UploadedResults == Get(UploadedPayload, "results", JList(<<>>))

\* Pixel lengths of the calibration lines of the active page.
CalibrationLengths ==
    {Hypot(scale_canvas[page_idx][i].x2 - scale_canvas[page_idx][i].x1,
           scale_canvas[page_idx][i].y2 - scale_canvas[page_idx][i].y1) :
        i \in 1 .. Len(scale_canvas[page_idx])}

\* A calibration line of positive length and a positive target length.
CalibrationUsable ==
    /\ \E l \in CalibrationLengths : l > 0
    /\ scale_len_mm[page_idx] > 0

LongestCalibration ==
    CHOOSE m \in CalibrationLengths : \A l \in CalibrationLengths : l <= m

\* C1: an import step either replaces all three tables by the document's
\* contents or leaves all three as they were.
C1_ImportAllOrNothing ==
    [][(pc = "import" /\ project_file # "None") =>
          \/ UNCHANGED <<page_scales, diameter_overrides, results_df>>
          \/ /\ FileOf(project_file, json_download).json
             /\ ScalesOk(UploadedScales)
             /\ OverridesOk(UploadedOverrides)
             /\ DataFrameOk(UploadedResults)
             /\ page_scales' = ImportedScales(UploadedScales)
             /\ diameter_overrides' = ImportedOverrides(UploadedOverrides)
             /\ results_df' = UploadedResults.v]_vars

\* C2: importing the exported document leaves the three tables equal to
\* those of the session state it was exported from.
C2_RoundTrip ==
    [][(pc = "import" /\ project_file = "exported") =>
          /\ page_scales' = exported_from[1]
          /\ diameter_overrides' = exported_from[2]
          /\ results_df' = exported_from[3]]_vars

\* C3: a pass with a calibration line of positive length and a positive
\* target length resolves px_per_mm to (longest line) / target, stores that
\* value for the page, and stores the same value again when it is already
\* the stored one.
C3_ScaleResolution ==
    [][(pc = "scale" /\ CalibrationUsable) =>
          /\ px_per_mm' # None
          /\ px_per_mm'[2] > 0
          /\ px_per_mm'[1] * scale_len_mm[page_idx] = px_per_mm'[2] * LongestCalibration
          /\ page_idx \in DOMAIN page_scales'
          /\ page_scales'[page_idx] = px_per_mm'
          /\ (/\ page_idx \in DOMAIN page_scales
              /\ page_scales[page_idx][2] > 0
              /\ page_scales[page_idx][1] * scale_len_mm[page_idx]
                    = page_scales[page_idx][2] * LongestCalibration)
             => page_scales'[page_idx] = page_scales[page_idx]]_vars

\* A pass has resolved the scale from two calibration lines of different length.
C3_Witness ==
    /\ pc = "compute"
    /\ CalibrationUsable
    /\ Cardinality(CalibrationLengths) = 2
    /\ page_idx \in DOMAIN page_scales
    /\ page_scales[page_idx] = px_per_mm

\* C4: a pass without a calibration line of positive length, or with target
\* length zero, leaves page_scales unchanged and resolves px_per_mm to the
\* value stored for the page, or to None.
C4_InvalidCalibrationKeepsScales ==
    [][(pc = "scale" /\ ~CalibrationUsable) =>
          /\ page_scales' = page_scales
          /\ px_per_mm' = IF page_idx \in DOMAIN page_scales
                          THEN page_scales[page_idx] ELSE None]_vars

\* A pass with a line drawn and target length zero has fallen back on a stored scale.
C4_Witness ==
    /\ pc = "compute"
    /\ scale_canvas[page_idx] # <<>>
    /\ scale_len_mm[page_idx] = 0
    /\ px_per_mm # None

\* C5: a recomputation pass in which no diameter cell was edited adds no
\* entry to diameter_overrides.
C5_OverrideOnlyOnEdit ==
    [][(pc = "compute" /\ edit = None) =>
          DOMAIN diameter_overrides' = DOMAIN diameter_overrides]_vars

\* C6 as claimed: a page with a stored scale has one after every step.
C6_ScaleMonotonic ==
    [][DOMAIN page_scales \subseteq DOMAIN page_scales']_vars

\* C6 amended: a page with a stored scale has one after every step that is
\* not a project import.
C6_ScaleMonotonicBetweenImports ==
    [][pc # "import" => DOMAIN page_scales \subseteq DOMAIN page_scales']_vars

\* A scaled page is still scaled in a later pass that applies a diameter edit.
C6_Witness ==
    /\ pc = "export"
    /\ edit # None
    /\ runs >= 3
    /\ page_idx \in DOMAIN page_scales

\* C7: every stored scale is strictly positive, and so is every scale the
\* geometry conversion divides by.
C7_ScalesPositive ==
    /\ \A p \in DOMAIN page_scales : page_scales[p][1] > 0 /\ page_scales[p][2] > 0
    /\ (pc = "export" /\ df # <<>>) => px_per_mm[1] > 0

\* C8: after a pass with no resolved scale the stored results are empty.
C8_UnscaledEmptyResults ==
    (pc = "export" /\ px_per_mm = None) => results_df = <<>>

\* C9: after a pass that yields rows, the totals are the sums over the
\* stored rows (areas in units of 0.0001 m2 over AreaDen, lengths in mm).
C9_AggregatesMatchRecords ==
    (pc = "export" /\ df # <<>>) =>
        /\ panel_area = AreaDen * SumSeq([i \in 1 .. Len(results_df) |->
              IF results_df[i].Type = "Paneel" THEN results_df[i].Oppervlakte_m2 ELSE 0])
        /\ post_area = AreaDen * SumSeq([i \in 1 .. Len(results_df) |->
              IF results_df[i].Type = "Paal/Buis" THEN results_df[i].Oppervlakte_m2 ELSE 0])
        /\ post_len_total = SumSeq([i \in 1 .. Len(results_df) |->
              IF results_df[i].Type = "Paal/Buis" THEN results_df[i].Lengte_m[1] ELSE 0])
        /\ total_area = panel_area + post_area

\* C10: in the rows a pass stores, the n-th panel of page P has id
\* "pP-panel-n", the n-th post has id "pP-post-n", and the ids are pairwise
\* distinct; the ids depend on nothing but the page and the draw order.
C10_StableIds ==
    (pc = "export" /\ df # <<>>) =>
        LET np == Len(panel_canvas[page_idx])
            nq == Len(post_canvas[page_idx])
            P == "p" \o ToString(page_idx + 1)
        IN  /\ Len(results_df) = np + nq
            /\ \A n \in 1 .. np :
                  /\ results_df[n].Type = "Paneel"
                  /\ results_df[n].ID = P \o "-panel-" \o ToString(n)
            /\ \A n \in 1 .. nq :
                  /\ results_df[np + n].Type = "Paal/Buis"
                  /\ results_df[np + n].ID = P \o "-post-" \o ToString(n)
            /\ \A i, j \in 1 .. Len(results_df) :
                  results_df[i].ID = results_df[j].ID => i = j
            /\ \A i \in 1 .. Len(results_df) : results_df[i].ID = df[i].ID

\* A pass has stored rows for a page with a panel and a post drawn on it.
C10_Witness ==
    /\ pc = "export"
    /\ df # <<>>
    /\ panel_canvas[page_idx] # <<>>
    /\ post_canvas[page_idx] # <<>>

====
